---- MODULE Spec2Model ----
(***************************************************************************)
(* Huffman compressor of src/huffman/src/main.rs: frequency counting,      *)
(* greedy tree construction, code generation, pre-order tree               *)
(* serialisation, bit packing, tree deserialisation and bit-by-bit         *)
(* decoding.  Option<T> is a sequence of length 0 (None) or 1 (Some), a    *)
(* HuffmanNode is a record with the four fields of the struct, a String of *)
(* '0'/'1' characters is a sequence of their ASCII codes, a BTreeMap is a  *)
(* function on its key set.                                                *)
(***************************************************************************)
EXTENDS Integers, Sequences, FiniteSets, TLC

\* ------------------------------------------------------------- bounds
MaxLen == 4
MaxFreq == 5
MaxPayload == 1
MaxStream == 3

\* the byte values inputs are drawn from: the two tag values 0 and 1,
\* and the letters 'a' and 'b'
Symbols == {0, 1, 97, 98}
\* byte values of an arbitrary stream handed to deserialize_tree
StreamBytes == {0, 1, 2, 97}
\* byte values of a payload that follows the tree in the file
PayloadBytes == {0, 1, 255}

\* ------------------------------------------------------------- Option
None == <<>>
Some(x) == <<x>>

\* ------------------------------------------------------------- u8 arithmetic
\* u8 << k: bits shifted out are lost
RECURSIVE Shl8(_, _)
Shl8(x, k) == IF k = 0 THEN x % 256 ELSE Shl8((x * 2) % 256, k - 1)

\* u8 >> k
RECURSIVE Shr8(_, _)
Shr8(x, k) == IF k = 0 THEN x ELSE Shr8(x \div 2, k - 1)

RECURSIVE BitOr8(_, _)
BitOr8(a, b) ==
    IF a = 0 /\ b = 0 THEN 0
    ELSE (IF a % 2 = 1 \/ b % 2 = 1 THEN 1 ELSE 0) + 2 * BitOr8(a \div 2, b \div 2)

RECURSIVE BitAnd8(_, _)
BitAnd8(a, b) ==
    IF a = 0 \/ b = 0 THEN 0
    ELSE (IF a % 2 = 1 /\ b % 2 = 1 THEN 1 ELSE 0) + 2 * BitAnd8(a \div 2, b \div 2)

\* ------------------------------------------------------------- BTreeMap
\* BTreeMap::insert / entry().or_insert(): the key's value is replaced
MapInsert(m, k, v) == [x \in (DOMAIN m) \cup {k} |-> IF x = k THEN v ELSE m[x]]

MinKey(S) == CHOOSE k \in S : \A j \in S : k <= j

\* BTreeMap::into_iter().collect(): the entries in ascending key order
RECURSIVE IntoIter(_)
IntoIter(m) ==
    IF DOMAIN m = {} THEN <<>>
    ELSE LET k == MinKey(DOMAIN m)
         IN  <<<<k, m[k]>>>> \o IntoIter([x \in (DOMAIN m) \ {k} |-> m[x]])

\* ------------------------------------------------------------- HuffmanNode
HuffmanNode_new(frequency, symbol) ==
    [frequency |-> frequency, symbol |-> symbol, left |-> None, right |-> None]

\* ------------------------------------------------------------- calculate_frequencies
\* mutant: a byte seen for the first time starts at 1 before the increment
RECURSIVE CountBytes_from_one(_, _)
CountBytes_from_one(data, frequencies) ==
    IF data = <<>> THEN frequencies
    ELSE LET byte == Head(data)
             old == IF byte \in DOMAIN frequencies THEN frequencies[byte] ELSE 1
         IN  CountBytes_from_one(Tail(data), MapInsert(frequencies, byte, old + 1))

RECURSIVE CountBytes(_, _)
CountBytes(data, frequencies) ==
    IF data = <<>> THEN frequencies
    ELSE LET byte == Head(data)
             old == IF byte \in DOMAIN frequencies THEN frequencies[byte] ELSE 0
         IN  CountBytes(Tail(data), MapInsert(frequencies, byte, old + 1))

calculate_frequencies(data) == IntoIter(CountBytes(data, <<>>))

\* ------------------------------------------------------------- build_huffman_tree
\* the initial working set: one leaf per table entry, in table order
InitialNodes(frequencies) ==
    [k \in 1..Len(frequencies) |->
        HuffmanNode_new(frequencies[k][2], Some(frequencies[k][1]))]

\* mutant: the sort is descending
RECURSIVE InsertByKey_descending(_, _)
InsertByKey_descending(sorted, n) ==
    IF sorted = <<>> THEN <<n>>
    ELSE IF Head(sorted).frequency >= n.frequency
         THEN <<Head(sorted)>> \o InsertByKey_descending(Tail(sorted), n)
         ELSE <<n>> \o sorted

\* mutant: the sort is not stable, an element goes in front of its equals
RECURSIVE InsertByKey_before_equal(_, _)
InsertByKey_before_equal(sorted, n) ==
    IF sorted = <<>> THEN <<n>>
    ELSE IF Head(sorted).frequency < n.frequency
         THEN <<Head(sorted)>> \o InsertByKey_before_equal(Tail(sorted), n)
         ELSE <<n>> \o sorted

\* insert n behind every element whose key is <= its own
RECURSIVE InsertByKey(_, _)
InsertByKey(sorted, n) ==
    IF sorted = <<>> THEN <<n>>
    ELSE IF Head(sorted).frequency <= n.frequency
         THEN <<Head(sorted)>> \o InsertByKey(Tail(sorted), n)
         ELSE <<n>> \o sorted

\* mutant: the working set is left in insertion order
SortByKey_unsorted(nodes) == nodes

\* nodes.sort_by_key(|n| n.frequency): a stable sort, ascending frequency
RECURSIVE SortByKey(_)
SortByKey(nodes) ==
    IF nodes = <<>> THEN <<>>
    ELSE InsertByKey(SortByKey(SubSeq(nodes, 1, Len(nodes) - 1)), nodes[Len(nodes)])

\* one iteration of the while loop
MergeNodes(nodes) ==
    LET sorted == SortByKey(nodes)
        left == sorted[1]
        right == sorted[2]
        merged_node == [frequency |-> left.frequency + right.frequency,
                        symbol |-> None,
                        left |-> Some(left),
                        right |-> Some(right)]
    IN  Append(SubSeq(sorted, 3, Len(sorted)), merged_node)

RECURSIVE MergeLoop(_)
MergeLoop(nodes) == IF Len(nodes) > 1 THEN MergeLoop(MergeNodes(nodes)) ELSE nodes

\* nodes.pop(): the last element, None when the vector is empty
PopNode(nodes) == IF nodes = <<>> THEN None ELSE Some(nodes[Len(nodes)])

build_huffman_tree(frequencies) == PopNode(MergeLoop(InitialNodes(frequencies)))

\* ------------------------------------------------------------- generate_codes
\* '0' and '1' as the bytes the String holds
Char0 == 48
Char1 == 49

\* mutant: both children extend the prefix with '0'
RECURSIVE generate_codes_same_digit(_, _, _)
generate_codes_same_digit(node, prefix, codes) ==
    IF node = None THEN codes
    ELSE LET n == node[1]
         IN  IF n.symbol # None
             THEN MapInsert(codes, n.symbol[1], prefix)
             ELSE generate_codes_same_digit(n.right, Append(prefix, Char0),
                      generate_codes_same_digit(n.left, Append(prefix, Char0), codes))

RECURSIVE generate_codes(_, _, _)
generate_codes(node, prefix, codes) ==
    IF node = None THEN codes
    ELSE LET n == node[1]
         IN  IF n.symbol # None
             THEN MapInsert(codes, n.symbol[1], prefix)
             ELSE generate_codes(n.right, Append(prefix, Char1),
                      generate_codes(n.left, Append(prefix, Char0), codes))

\* ------------------------------------------------------------- serialize_tree
\* mutant: the right subtree is written before the left one
RECURSIVE serialize_tree_right_first(_, _)
serialize_tree_right_first(node, output) ==
    IF node = None THEN output
    ELSE LET n == node[1]
         IN  IF n.symbol # None
             THEN Append(Append(output, 1), n.symbol[1])
             ELSE serialize_tree_right_first(n.left,
                      serialize_tree_right_first(n.right, Append(output, 0)))

RECURSIVE serialize_tree(_, _)
serialize_tree(node, output) ==
    IF node = None THEN output
    ELSE LET n == node[1]
         IN  IF n.symbol # None
             THEN Append(Append(output, 1), n.symbol[1])
             ELSE serialize_tree(n.right, serialize_tree(n.left, Append(output, 0)))

\* ------------------------------------------------------------- encode_data
\* data.iter().map(|&b| codes.get(&b).unwrap().clone()).collect()
RECURSIVE BitString(_, _)
BitString(data, codes) ==
    IF data = <<>> THEN <<>>
    ELSE codes[Head(data)] \o BitString(Tail(data), codes)

\* mutant: the final partial byte is pushed without the shift to the top
RECURSIVE PackBits_no_final_shift(_, _, _, _)
PackBits_no_final_shift(bit_string, byte, count, compressed_data) ==
    IF bit_string = <<>>
    THEN IF count > 0
         THEN Append(compressed_data, byte)
         ELSE compressed_data
    ELSE LET b == BitOr8(Shl8(byte, 1), Head(bit_string) - Char0)
         IN  IF count + 1 = 8
             THEN PackBits_no_final_shift(Tail(bit_string), 0, 0, Append(compressed_data, b))
             ELSE PackBits_no_final_shift(Tail(bit_string), b, count + 1, compressed_data)

\* mutant: the final byte is pushed even when no bit is pending
RECURSIVE PackBits_always_flush(_, _, _, _)
PackBits_always_flush(bit_string, byte, count, compressed_data) ==
    IF bit_string = <<>>
    THEN Append(compressed_data, Shl8(byte, 8 - count))
    ELSE LET b == BitOr8(Shl8(byte, 1), Head(bit_string) - Char0)
         IN  IF count + 1 = 8
             THEN PackBits_always_flush(Tail(bit_string), 0, 0, Append(compressed_data, b))
             ELSE PackBits_always_flush(Tail(bit_string), b, count + 1, compressed_data)

\* the packing loop and the final partial byte
RECURSIVE PackBits(_, _, _, _)
PackBits(bit_string, byte, count, compressed_data) ==
    IF bit_string = <<>>
    THEN IF count > 0
         THEN Append(compressed_data, Shl8(byte, 8 - count))
         ELSE compressed_data
    ELSE LET b == BitOr8(Shl8(byte, 1), Head(bit_string) - Char0)
         IN  IF count + 1 = 8
             THEN PackBits(Tail(bit_string), 0, 0, Append(compressed_data, b))
             ELSE PackBits(Tail(bit_string), b, count + 1, compressed_data)

\* mutant: a symbol without a code is skipped
encode_data_skip_missing(data, codes) ==
    [panic |-> FALSE,
     value |-> PackBits(BitString(SelectSeq(data, LAMBDA b : b \in DOMAIN codes), codes),
                        0, 0, <<>>)]

\* unwrap() of a missing code aborts the call
encode_data(data, codes) ==
    IF \E k \in 1..Len(data) : data[k] \notin DOMAIN codes
    THEN [panic |-> TRUE, value |-> <<>>]
    ELSE [panic |-> FALSE, value |-> PackBits(BitString(data, codes), 0, 0, <<>>)]

\* ------------------------------------------------------------- deserialize_tree
\* mutant: the cursor is not advanced past a leaf's symbol byte
RECURSIVE deserialize_tree_symbol_kept(_)
deserialize_tree_symbol_kept(data) ==
    IF data = <<>> THEN [panic |-> FALSE, tree |-> None, rest |-> data]
    ELSE LET is_leaf == data[1]
             d1 == Tail(data)
         IN  IF is_leaf = 1
             THEN IF d1 = <<>>
                  THEN [panic |-> TRUE, tree |-> None, rest |-> d1]
                  ELSE [panic |-> FALSE,
                        tree |-> Some(HuffmanNode_new(0, Some(d1[1]))),
                        rest |-> d1]
             ELSE LET l == deserialize_tree_symbol_kept(d1)
                  IN  IF l.panic THEN l
                      ELSE LET r == deserialize_tree_symbol_kept(l.rest)
                           IN  IF r.panic THEN r
                               ELSE [panic |-> FALSE,
                                     tree |-> Some([frequency |-> 0,
                                                    symbol |-> None,
                                                    left |-> l.tree,
                                                    right |-> r.tree]),
                                     rest |-> r.rest]

\* the result: the returned Option, the cursor left in *data, and whether
\* an index past the end of the slice aborted the call
RECURSIVE deserialize_tree(_)
deserialize_tree(data) ==
    IF data = <<>> THEN [panic |-> FALSE, tree |-> None, rest |-> data]
    ELSE LET is_leaf == data[1]
             d1 == Tail(data)
         IN  IF is_leaf = 1
             THEN IF d1 = <<>>
                  THEN [panic |-> TRUE, tree |-> None, rest |-> d1]
                  ELSE [panic |-> FALSE,
                        tree |-> Some(HuffmanNode_new(0, Some(d1[1]))),
                        rest |-> Tail(d1)]
             ELSE LET l == deserialize_tree(d1)
                  IN  IF l.panic THEN l
                      ELSE LET r == deserialize_tree(l.rest)
                           IN  IF r.panic THEN r
                               ELSE [panic |-> FALSE,
                                     tree |-> Some([frequency |-> 0,
                                                    symbol |-> None,
                                                    left |-> l.tree,
                                                    right |-> r.tree]),
                                     rest |-> r.rest]

\* ------------------------------------------------------------- decode_data
\* the locals of decode_data before the first bit
DecodeInit(root) ==
    [decoded_data |-> <<>>, current_node |-> root, bit_buffer |-> 0, bit_count |-> 0]

\* the body of the inner loop for bit i of byte
DecodeBit(st, byte, i, root) ==
    LET bit == BitAnd8(Shr8(byte, i), 1)
        bit_buffer == BitOr8(Shl8(st.bit_buffer, 1), bit)
        bit_count == st.bit_count + 1
        moved ==
            IF st.current_node = None
            THEN [decoded_data |-> st.decoded_data, current_node |-> st.current_node]
            ELSE LET node == st.current_node[1]
                 IN  IF node.symbol # None
                     THEN [decoded_data |-> Append(st.decoded_data, node.symbol[1]),
                           current_node |-> root]
                     ELSE [decoded_data |-> st.decoded_data,
                           current_node |->
                               IF BitAnd8(bit_buffer, Shl8(1, bit_count - 1)) # 0
                               THEN node.right
                               ELSE node.left]
    IN  [decoded_data |-> moved.decoded_data,
         current_node |-> moved.current_node,
         bit_buffer |-> IF bit_count = 8 THEN 0 ELSE bit_buffer,
         bit_count |-> IF bit_count = 8 THEN 0 ELSE bit_count]

RECURSIVE DecodeFrom(_, _, _, _, _)
DecodeFrom(st, compressed_data, k, i, root) ==
    IF k > Len(compressed_data) THEN st
    ELSE LET nxt == DecodeBit(st, compressed_data[k], i, root)
         IN  IF i = 0
             THEN DecodeFrom(nxt, compressed_data, k + 1, 7, root)
             ELSE DecodeFrom(nxt, compressed_data, k, i - 1, root)

decode_data(compressed_data, root) ==
    DecodeFrom(DecodeInit(root), compressed_data, 1, 7, root).decoded_data

\* ------------------------------------------------------------- state
VARIABLES
    pc,               \* position in the run
    data,             \* the input bytes (main: data)
    frequencies,      \* main: frequencies
    nodes,            \* build_huffman_tree: the working set
    entered,          \* history: every node put into nodes, in the order of entry
    huffman_tree,     \* main: huffman_tree
    codes,            \* main: codes
    tree_data,        \* main: tree_data
    compressed_data,  \* main: compressed_data
    payload,          \* write_binary_file: its data argument
    file,             \* the bytes of the written file
    input,            \* deserialize_tree: the cursor *data after the call
    read_tree,        \* deserialize_tree: the returned Option
    decoded_data,     \* decode_data: decoded_data
    current_node,     \* decode_data: current_node
    bit_buffer,       \* decode_data: bit_buffer
    bit_count,        \* decode_data: bit_count
    byte_idx,         \* decode_data: position of the outer loop (1-based)
    bit_idx           \* decode_data: i of the inner loop

vars == <<pc, data, frequencies, nodes, entered, huffman_tree, codes, tree_data,
          compressed_data, payload, file, input, read_tree, decoded_data,
          current_node, bit_buffer, bit_count, byte_idx, bit_idx>>

buildVars == <<frequencies, nodes, entered, huffman_tree>>
fileVars == <<payload, file, input, read_tree>>
decodeVars == <<decoded_data, current_node, bit_buffer, bit_count, byte_idx, bit_idx>>

\* every sequence over S of length at most n
BoundedSeq(S, n) == UNION {[1..k -> S] : k \in 0..n}

\* k copies of b
RECURSIVE Repeat(_, _)
Repeat(b, k) == IF k = 0 THEN <<>> ELSE <<b>> \o Repeat(b, k - 1)

\* the bytes of S in ascending order, byte b occurring count[b] times
RECURSIVE Expand(_, _)
Expand(S, count) ==
    IF S = {} THEN <<>>
    ELSE LET b == MinKey(S) IN Repeat(b, count[b]) \o Expand(S \ {b}, count)

Fresh ==
    /\ frequencies = <<>>
    /\ nodes = <<>>
    /\ entered = <<>>
    /\ huffman_tree = None
    /\ codes = <<>>
    /\ tree_data = <<>>
    /\ compressed_data = <<>>
    /\ payload = <<>>
    /\ input = <<>>
    /\ read_tree = None
    /\ decoded_data = <<>>
    /\ current_node = None
    /\ bit_buffer = 0
    /\ bit_count = 0
    /\ byte_idx = 1
    /\ bit_idx = 7

\* any input of at most MaxLen bytes
Init ==
    /\ pc = "start"
    /\ data \in BoundedSeq(Symbols, MaxLen)
    /\ file = <<>>
    /\ Fresh

\* inputs with every count up to MaxFreq
InitFreq ==
    /\ pc = "start"
    /\ data \in {Expand(Symbols, count) : count \in [Symbols -> 0..MaxFreq]}
    /\ file = <<>>
    /\ Fresh

\* an arbitrary file handed to deserialize_tree
InitStream ==
    /\ pc = "written"
    /\ data = <<>>
    /\ file \in BoundedSeq(StreamBytes, MaxStream)
    /\ Fresh

\* ------------------------------------------------------------- actions
CalculateFrequencies ==
    /\ pc = "start"
    /\ frequencies' = calculate_frequencies(data)
    /\ pc' = "counted"
    /\ UNCHANGED <<data, nodes, entered, huffman_tree, codes, tree_data, compressed_data>>
    /\ UNCHANGED <<fileVars, decodeVars>>

\* build_huffman_tree, lines 25-28
BuildStart ==
    /\ pc = "counted"
    /\ nodes' = InitialNodes(frequencies)
    /\ entered' = InitialNodes(frequencies)
    /\ pc' = "merging"
    /\ UNCHANGED <<data, frequencies, huffman_tree, codes, tree_data, compressed_data>>
    /\ UNCHANGED <<fileVars, decodeVars>>

\* build_huffman_tree, one iteration of the loop of lines 30-42
MergeStep ==
    /\ pc = "merging"
    /\ Len(nodes) > 1
    /\ nodes' = MergeNodes(nodes)
    /\ entered' = Append(entered, nodes'[Len(nodes')])
    /\ UNCHANGED <<pc, data, frequencies, huffman_tree, codes, tree_data, compressed_data>>
    /\ UNCHANGED <<fileVars, decodeVars>>

\* build_huffman_tree, line 43
BuildFinish ==
    /\ pc = "merging"
    /\ ~(Len(nodes) > 1)
    /\ huffman_tree' = PopNode(nodes)
    /\ nodes' = IF nodes = <<>> THEN nodes ELSE SubSeq(nodes, 1, Len(nodes) - 1)
    /\ pc' = "built"
    /\ UNCHANGED <<data, frequencies, entered, codes, tree_data, compressed_data>>
    /\ UNCHANGED <<fileVars, decodeVars>>

GenerateCodes ==
    /\ pc = "built"
    /\ codes' = generate_codes(huffman_tree, <<>>, <<>>)
    /\ pc' = "coded"
    /\ UNCHANGED <<data, buildVars, tree_data, compressed_data>>
    /\ UNCHANGED <<fileVars, decodeVars>>

SerializeTree ==
    /\ pc = "coded"
    /\ tree_data' = serialize_tree(huffman_tree, <<>>)
    /\ pc' = "serialized"
    /\ UNCHANGED <<data, buildVars, codes, compressed_data>>
    /\ UNCHANGED <<fileVars, decodeVars>>

EncodeData ==
    /\ pc = "serialized"
    /\ LET r == encode_data(data, codes)
       IN  /\ compressed_data' = r.value
           /\ pc' = IF r.panic THEN "aborted" ELSE "encoded"
    /\ UNCHANGED <<data, buildVars, codes, tree_data>>
    /\ UNCHANGED <<fileVars, decodeVars>>

\* write_binary_file(filename, tree_data, data): the tree bytes, then the
\* payload bytes; main passes compressed_data
WriteBinaryFile ==
    /\ pc = "encoded"
    /\ \E p \in {compressed_data} \cup BoundedSeq(PayloadBytes, MaxPayload) :
        /\ payload' = p
        /\ file' = tree_data \o p
    /\ pc' = "written"
    /\ UNCHANGED <<data, buildVars, codes, tree_data, compressed_data>>
    /\ UNCHANGED <<input, read_tree, decodeVars>>

\* deserialize_tree on the contents of the file
DeserializeTree ==
    /\ pc = "written"
    /\ LET r == deserialize_tree(file)
       IN  /\ read_tree' = r.tree
           /\ input' = r.rest
           /\ pc' = IF r.panic THEN "panicked" ELSE "deserialized"
    /\ UNCHANGED <<data, buildVars, codes, tree_data, compressed_data>>
    /\ UNCHANGED <<payload, file, decodeVars>>

\* decode_data(&compressed_data, &huffman_tree), lines 138-141
DecodeStart ==
    /\ pc = "encoded"
    /\ LET st == DecodeInit(huffman_tree)
       IN  /\ decoded_data' = st.decoded_data
           /\ current_node' = st.current_node
           /\ bit_buffer' = st.bit_buffer
           /\ bit_count' = st.bit_count
    /\ byte_idx' = 1
    /\ bit_idx' = 7
    /\ pc' = "decoding"
    /\ UNCHANGED <<data, buildVars, codes, tree_data, compressed_data, fileVars>>

\* decode_data, one iteration of the inner loop of lines 144-165
DecodeStep ==
    /\ pc = "decoding"
    /\ byte_idx <= Len(compressed_data)
    /\ LET st == DecodeBit([decoded_data |-> decoded_data,
                            current_node |-> current_node,
                            bit_buffer |-> bit_buffer,
                            bit_count |-> bit_count],
                           compressed_data[byte_idx], bit_idx, huffman_tree)
       IN  /\ decoded_data' = st.decoded_data
           /\ current_node' = st.current_node
           /\ bit_buffer' = st.bit_buffer
           /\ bit_count' = st.bit_count
    /\ IF bit_idx = 0
       THEN byte_idx' = byte_idx + 1 /\ bit_idx' = 7
       ELSE byte_idx' = byte_idx /\ bit_idx' = bit_idx - 1
    /\ UNCHANGED <<pc, data, buildVars, codes, tree_data, compressed_data, fileVars>>

\* decode_data, line 167
DecodeFinish ==
    /\ pc = "decoding"
    /\ byte_idx > Len(compressed_data)
    /\ pc' = "decoded"
    /\ UNCHANGED <<data, buildVars, codes, tree_data, compressed_data>>
    /\ UNCHANGED <<fileVars, decodeVars>>

Next ==
    \/ CalculateFrequencies
    \/ BuildStart
    \/ MergeStep
    \/ BuildFinish
    \/ GenerateCodes
    \/ SerializeTree
    \/ EncodeData
    \/ WriteBinaryFile
    \/ DeserializeTree
    \/ DecodeStart
    \/ DecodeStep
    \/ DecodeFinish

NextStream == DeserializeTree

\* encode_data handed any input and any code table, covering it or not
CodeWords == {<<Char0>>, <<Char1, Char0>>}
CodeTables == UNION {[D -> CodeWords] : D \in SUBSET Symbols}

InitEncode ==
    /\ pc = "serialized"
    /\ data \in BoundedSeq(Symbols, MaxLen)
    /\ codes \in CodeTables
    /\ frequencies = <<>>
    /\ nodes = <<>>
    /\ entered = <<>>
    /\ huffman_tree = None
    /\ tree_data = <<>>
    /\ compressed_data = <<>>
    /\ payload = <<>>
    /\ file = <<>>
    /\ input = <<>>
    /\ read_tree = None
    /\ decoded_data = <<>>
    /\ current_node = None
    /\ bit_buffer = 0
    /\ bit_count = 0
    /\ byte_idx = 1
    /\ bit_idx = 7

NextEncode == EncodeData

SpecEncode == InitEncode /\ [][NextEncode]_vars

Spec == Init /\ [][Next]_vars
SpecFreq == InitFreq /\ [][Next]_vars
SpecStream == InitStream /\ [][NextStream]_vars

\* ------------------------------------------------------------- typing
AfterCounted == pc \notin {"start"}
AfterBuilt == pc \notin {"start", "counted", "merging"}
AfterCoded == AfterBuilt /\ pc # "built"
AfterSerialized == AfterCoded /\ pc # "coded"
AfterEncoded == AfterSerialized /\ pc \notin {"serialized", "aborted"}

\* ------------------------------------------------------------- properties
\* a is a prefix of b (a = b included)
IsPrefix(a, b) == Len(a) <= Len(b) /\ SubSeq(b, 1, Len(a)) = a

\* same Leaf/Internal shape with the same symbol at every position;
\* the frequency field is not compared
RECURSIVE SameShape(_, _)
SameShape(a, b) ==
    IF a = None \/ b = None THEN a = b
    ELSE /\ a[1].symbol = b[1].symbol
         /\ SameShape(a[1].left, b[1].left)
         /\ SameShape(a[1].right, b[1].right)

IsLeaf(node, symbol) ==
    /\ node # None
    /\ node[1].symbol = Some(symbol)
    /\ node[1].left = None
    /\ node[1].right = None

\* the input is one byte repeated
SingleSymbol == data # <<>> /\ \A k \in 1..Len(data) : data[k] = data[1]

\* the serialisation format read off a stream: a node is the tag 1 and one
\* symbol byte, or the tag 0 and two nodes.  "ok" with the bytes behind the
\* node, "truncated" when the stream ends inside the node, "badtag" when a
\* tag byte is neither 0 nor 1
RECURSIVE ScanNode(_)
ScanNode(s) ==
    IF s = <<>> THEN [status |-> "truncated", rest |-> s]
    ELSE IF s[1] = 1
         THEN IF Len(s) < 2
              THEN [status |-> "truncated", rest |-> <<>>]
              ELSE [status |-> "ok", rest |-> SubSeq(s, 3, Len(s))]
    ELSE IF s[1] = 0
         THEN LET l == ScanNode(Tail(s))
              IN  IF l.status # "ok" THEN l ELSE ScanNode(l.rest)
    ELSE [status |-> "badtag", rest |-> s]

Returned == pc \in {"deserialized", "panicked"}

\* C1: round trip: for every non-empty input S, decoding the payload that
\* encode_data produced for S, with the tree built from S, gives S back.
C1_RoundTrip ==
    (pc = "decoded" /\ data # <<>>) => decoded_data = data

\* C2: tree round trip: for a table of N >= 1 symbols, deserialising the
\* serialised tree returns a tree of the same shape with the same leaf
\* symbols (and does not abort).
C2_TreeRoundTrip ==
    (Returned /\ Len(frequencies) >= 1 /\ payload = <<>>)
        => (pc = "deserialized" /\ SameShape(read_tree, huffman_tree))

C2_Witness ==
    /\ pc = "deserialized"
    /\ payload = <<>>
    /\ Len(frequencies) >= 3
    /\ read_tree # None
    /\ read_tree[1].symbol = None

\* C3: prefix-free code table: no two distinct symbols have the same code
\* and no symbol's code is a prefix of another symbol's code.
C3_PrefixFree ==
    AfterCoded =>
        \A s \in DOMAIN codes : \A t \in DOMAIN codes :
            s # t => ~IsPrefix(codes[s], codes[t])

C3_Witness ==
    /\ pc = "coded"
    /\ Cardinality(DOMAIN codes) >= 3
    /\ \E s \in DOMAIN codes : \E t \in DOMAIN codes : Len(codes[s]) < Len(codes[t])

\* C4: a stream that ends in the middle of a node is rejected: the call
\* neither aborts nor returns a tree.
C4_TruncatedRejected ==
    (Returned /\ file # <<>> /\ ScanNode(file).status = "truncated")
        => (pc = "deserialized" /\ read_tree = None)

\* C5: a stream with a tag byte that is neither 0 nor 1 is rejected: the
\* call neither aborts nor returns a tree built from that byte.
C5_UnknownTagRejected ==
    (Returned /\ ScanNode(file).status = "badtag")
        => (pc = "deserialized" /\ read_tree = None)

\* C6: single-symbol alphabet: for k >= 1 copies of one byte b the tree is
\* the single node Leaf(b), and decoding the encoded payload with that tree
\* gives the k copies of b back.
C6_SingleSymbol ==
    SingleSymbol =>
        /\ AfterBuilt => IsLeaf(huffman_tree, data[1])
        /\ pc = "decoded" => decoded_data = data

\* C7: empty input: the frequency table is empty, there is no tree, the
\* code table is empty, no tree byte is written, the payload is empty and
\* decoding the empty payload gives the empty sequence.
C7_EmptyInput ==
    data = <<>> =>
        /\ pc # "aborted"
        /\ AfterCounted => frequencies = <<>>
        /\ AfterBuilt => huffman_tree = None
        /\ AfterCoded => DOMAIN codes = {}
        /\ AfterSerialized => tree_data = <<>>
        /\ AfterEncoded => compressed_data = <<>>
        /\ pc = "decoded" => decoded_data = <<>>

C7_Witness == data = <<>> /\ pc = "decoded"

TableA5B3 == frequencies = <<<<97, 5>>, <<98, 3>>>>

\* C8 as stated: for the table [('a', 5), ('b', 3)] the root is an Internal
\* node of weight 8 with Leaf('a') on the left and Leaf('b') on the right,
\* and the codes are 'a' -> 0, 'b' -> 1.
C8_Original ==
    (TableA5B3 /\ AfterBuilt) =>
        /\ huffman_tree # None
        /\ huffman_tree[1].symbol = None
        /\ huffman_tree[1].frequency = 8
        /\ IsLeaf(huffman_tree[1].left, 97)
        /\ IsLeaf(huffman_tree[1].right, 98)
        /\ AfterCoded => (codes[97] = <<Char0>> /\ codes[98] = <<Char1>>)

\* C8 amended: for the table [('a', 5), ('b', 3)] the root is an Internal
\* node of weight 8 with the lighter Leaf('b') on the left and Leaf('a') on
\* the right, and the codes are 'b' -> 0, 'a' -> 1.
C8_TwoSymbolShape ==
    (TableA5B3 /\ AfterBuilt) =>
        /\ huffman_tree # None
        /\ huffman_tree[1].symbol = None
        /\ huffman_tree[1].frequency = 8
        /\ IsLeaf(huffman_tree[1].left, 98)
        /\ IsLeaf(huffman_tree[1].right, 97)
        /\ AfterCoded =>
            (DOMAIN codes = {97, 98} /\ codes[98] = <<Char0>> /\ codes[97] = <<Char1>>)

C8_Witness == TableA5B3 /\ pc = "coded"

\* C9: artifact split: for a tree built from N >= 1 symbols and any payload
\* P, deserialising serialize_tree(T) ++ P consumes exactly the bytes of
\* serialize_tree(T) and leaves the cursor at P.
C9_ArtifactSplit ==
    (Returned /\ Len(frequencies) >= 1) =>
        /\ pc = "deserialized"
        /\ input = payload
        /\ Len(file) - Len(input) = Len(tree_data)

C9_Witness ==
    /\ pc = "deserialized"
    /\ Len(frequencies) >= 2
    /\ payload # <<>>
    /\ payload[1] \in {0, 1}
    /\ input = payload

\* C10: every code of the code table is a non-empty bit sequence; for a
\* single-symbol table the code is exactly one bit long.
C10_NonEmptyCodes ==
    AfterCoded =>
        /\ \A s \in DOMAIN codes : Len(codes[s]) >= 1
        /\ Len(frequencies) = 1 => \A s \in DOMAIN codes : Len(codes[s]) = 1

\* ------------------------------------------------------------- C11
Occurrences(b) == Cardinality({i \in 1..Len(data) : data[i] = b})

RECURSIVE SumCounts(_)
SumCounts(table) == IF table = <<>> THEN 0 ELSE Head(table)[2] + SumCounts(Tail(table))

\* C11: the frequency table has one entry for each distinct byte of the
\* input and no other, each count is the number of occurrences of that byte
\* (positive, summing to the input length), and the entries are in strictly
\* ascending symbol value.
C11_FrequencyTable ==
    AfterCounted =>
        /\ {frequencies[k][1] : k \in 1..Len(frequencies)} = {data[i] : i \in 1..Len(data)}
        /\ \A k \in 1..Len(frequencies) :
            /\ frequencies[k][2] = Occurrences(frequencies[k][1])
            /\ frequencies[k][2] > 0
        /\ \A k \in 1..(Len(frequencies) - 1) : frequencies[k][1] < frequencies[k + 1][1]
        /\ SumCounts(frequencies) = Len(data)

C11_Witness ==
    /\ pc = "counted"
    /\ Len(frequencies) >= 2
    /\ \E k \in 1..Len(frequencies) : frequencies[k][2] >= 2
    /\ data[1] > data[Len(data)]

\* ------------------------------------------------------------- C12, C13
RECURSIVE WeightSum(_)
WeightSum(s) == IF s = <<>> THEN 0 ELSE Head(s).frequency + WeightSum(Tail(s))

\* the merge steps performed so far: the merged nodes that entered the set
MergeCount == Cardinality({k \in 1..Len(entered) : entered[k].symbol = None})

\* a step of the merge loop
IsMergeStep == pc = "merging" /\ pc' = "merging" /\ nodes' # nodes

C12_Step ==
    IsMergeStep =>
        LET merged == nodes'[Len(nodes')]
            left == merged.left[1]
            right == merged.right[1]
        IN  /\ merged.symbol = None
            /\ \E i \in 1..Len(nodes) : \E j \in 1..Len(nodes) :
                /\ i # j
                /\ nodes[i] = left
                /\ nodes[j] = right
                /\ \A k \in 1..Len(nodes) : k \notin {i, j} =>
                    /\ nodes[k].frequency >= left.frequency
                    /\ nodes[k].frequency >= right.frequency
            /\ merged.frequency = left.frequency + right.frequency
            /\ Len(nodes') = Len(nodes) - 1
            /\ WeightSum(nodes') = WeightSum(nodes)
            /\ MergeCount' = MergeCount + 1

C12_Final ==
    (AfterBuilt /\ Len(frequencies) >= 2) =>
        /\ MergeCount = Len(frequencies) - 1
        /\ huffman_tree # None
        /\ huffman_tree[1].frequency = SumCounts(frequencies)
        /\ huffman_tree[1].frequency = Len(data)

\* C12: greedy merge: for N >= 2 entries there are exactly N-1 merge steps;
\* every step removes two nodes with the two smallest weights of the
\* working set, the new Internal node weighs their sum, the set shrinks by
\* one and its total weight is unchanged; the root weighs the sum of all
\* frequencies, which is the input length.
C12_GreedyMerge == [][C12_Step]_vars /\ []C12_Final

C12_Witness ==
    /\ pc = "built"
    /\ Len(frequencies) = 4
    /\ MergeCount = 3
    /\ huffman_tree[1].frequency = Len(data)

\* position of a node in the order of entry into the working set
Rank(n) == CHOOSE k \in 1..Len(entered) : entered[k] = n

\* a is picked before b: lighter, or as heavy and entered earlier
PickedBefore(a, b) ==
    \/ a.frequency < b.frequency
    \/ a.frequency = b.frequency /\ Rank(a) < Rank(b)

C13_Step ==
    IsMergeStep =>
        LET merged == nodes'[Len(nodes')]
            left == merged.left[1]
            right == merged.right[1]
        IN  /\ left # right
            /\ \E i \in 1..Len(nodes) : nodes[i] = left
            /\ \E j \in 1..Len(nodes) : nodes[j] = right
            /\ \A k \in 1..Len(nodes) : nodes[k] # left => PickedBefore(left, nodes[k])
            /\ \A k \in 1..Len(nodes) :
                nodes[k] \notin {left, right} => PickedBefore(right, nodes[k])

\* the order of entry: the leaves in table order, then the merged nodes
C13_Order ==
    pc \notin {"start", "counted"} =>
        /\ Len(entered) >= Len(frequencies)
        /\ \A k \in 1..Len(entered) :
            IF k <= Len(frequencies)
            THEN entered[k] = HuffmanNode_new(frequencies[k][2], Some(frequencies[k][1]))
            ELSE entered[k].symbol = None
        /\ \A k \in 1..Len(entered) : \A m \in 1..Len(entered) :
            entered[k] = entered[m] => k = m

\* C13: tie-break: at every merge step, nodes of equal weight are picked in
\* the order in which they entered the working set (leaves in table order
\* and before merged nodes, merged nodes oldest first); the first node
\* picked becomes the left child, the second the right child.
C13_TieBreak == [][C13_Step]_vars /\ []C13_Order

\* a leaf and an older merged node of the same weight were merged, and two
\* leaves of the same weight were merged
C13_Witness ==
    /\ pc = "built"
    /\ \E k \in 1..Len(entered) :
        /\ entered[k].symbol = None
        /\ entered[k].left[1].symbol # None
        /\ entered[k].right[1].symbol = None
        /\ entered[k].left[1].frequency = entered[k].right[1].frequency
    /\ \E k \in 1..Len(entered) :
        /\ entered[k].symbol = None
        /\ entered[k].left[1].symbol # None
        /\ entered[k].right[1].symbol # None
        /\ entered[k].left[1].frequency = entered[k].right[1].frequency

\* ------------------------------------------------------------- C14
RECURSIVE Pow2(_)
Pow2(k) == IF k = 0 THEN 1 ELSE 2 * Pow2(k - 1)

\* bit i (0-based) of a byte sequence, most significant bit of a byte first
BitAt(bytes, i) == (bytes[(i \div 8) + 1] \div Pow2(7 - (i % 8))) % 2

RECURSIVE CodeLengthSum(_)
CodeLengthSum(S) == IF S = <<>> THEN 0 ELSE Len(codes[Head(S)]) + CodeLengthSum(Tail(S))

\* C14: bit packing: the payload has ceil(B/8) bytes, B the sum of the code
\* lengths of the input's symbols; bit i of the concatenated codes is in
\* byte i div 8 at bit position 7 - (i mod 8); the unused low bits of the
\* last byte are 0; "aaaaabbb" with one-bit codes packs into one byte.
C14_BitPacking ==
    pc = "encoded" =>
        LET bits == BitString(data, codes)
            B == CodeLengthSum(data)
        IN  /\ Len(bits) = B
            /\ Len(compressed_data) = (B + 7) \div 8
            /\ \A k \in 1..Len(compressed_data) : compressed_data[k] \in 0..255
            /\ \A i \in 0..(B - 1) : BitAt(compressed_data, i) = bits[i + 1] - Char0
            /\ \A i \in B..(8 * Len(compressed_data) - 1) : BitAt(compressed_data, i) = 0
            /\ TableA5B3 => Len(compressed_data) = 1

C14_Witness ==
    /\ pc = "encoded"
    /\ Len(compressed_data) >= 2
    /\ CodeLengthSum(data) % 8 # 0
    /\ compressed_data[Len(compressed_data)] # 0

\* ------------------------------------------------------------- C15
C15_Step ==
    (/\ pc = "decoding"
     /\ byte_idx <= Len(compressed_data)
     /\ <<byte_idx, bit_idx>>' # <<byte_idx, bit_idx>>
     /\ current_node # None
     /\ current_node[1].symbol = None) =>
        LET bit == (compressed_data[byte_idx] \div Pow2(bit_idx)) % 2
            child == IF bit = 0 THEN current_node[1].left ELSE current_node[1].right
        IN  IF child # None /\ child[1].symbol # None
            THEN /\ decoded_data' = Append(decoded_data, child[1].symbol[1])
                 /\ current_node' = huffman_tree
            ELSE /\ decoded_data' = decoded_data
                 /\ current_node' = child

\* C15: decoder tree walk: for each payload bit, most significant first, the
\* cursor moves from the current Internal node to its left child on 0 and to
\* its right child on 1; when the move reaches a Leaf its symbol is emitted
\* and the cursor is reset to the root within the same bit.
C15_TreeWalk == [][C15_Step]_vars

\* ------------------------------------------------------------- C16
MissingCode == \E k \in 1..Len(data) : data[k] \notin DOMAIN codes

\* C16: a symbol without an entry in the code table makes encode_data abort:
\* no payload is returned, the symbol is not skipped.
C16_MissingCodeFatal ==
    (pc \in {"encoded", "aborted"} /\ MissingCode) =>
        (pc = "aborted" /\ compressed_data = <<>>)

C16_Witness ==
    /\ pc = "aborted"
    /\ Len(data) >= 2
    /\ data[1] \in DOMAIN codes
    /\ data[Len(data)] \notin DOMAIN codes

====
